---- MODULE Spec2Model ----
(***************************************************************************)
(* Model of c/examples/raw_echo.c (qpid-proton): a bounded echo service    *)
(* over raw connections.  The application state (conn_data, app,           *)
(* exit_code, the position of run's loop) and every event handler are      *)
(* translated from the source.  The proactor (the event engine: clock,     *)
(* timer, listener, raw connections and their buffer queues) is not part   *)
(* of the source file; it is modelled from the contract the specification  *)
(* states for it.                                                          *)
(***************************************************************************)
EXTENDS Integers, Sequences, FiniteSets, TLC

\* ---------------------------------------------------------------- constants
MAX_CONNECTIONS == 5
READ_BUFFERS == 4
BUF_CAPACITY == 1024
WAKE_INTERVAL == 5000
IDLE_TIMEOUT == 20000
NULL == 0

\* ------------------------------------------------------------------- bounds
\* A run is one of three workloads, chosen at the start:
\*   "timing":  few connections over a long time (the timeout controller);
\*   "traffic": few connections that exchange data and may run out of memory,
\*              within the first wake interval;
\*   "full":    enough connections to fill the slot table, within the first
\*              wake interval, with no condition set on any event.
\* Connections the listener delivers in a run of each workload.
TimingConns == 2
TrafficConns == 2
FullConns == 6
\* Steps of the clock in a "timing" run.
MaxTicks == 7
\* Data-arrival events (bytes received from a peer) in a "traffic" run.
MaxData == 2
\* Connections that carry traffic or are being torn down at the same time.
MaxBusy == 1
\* malloc calls that fail in a "traffic" run.
MaxAllocFail == 1

Workloads == {"timing", "traffic", "full"}

\* The clock is observed in steps of one wake interval (and at the timeout's
\* deadline).  Its value when the program starts, pn_proactor_now_64(), is
\* positive.
TickStep == WAKE_INTERVAL
StartTime == TickStep
MaxTime == StartTime + MaxTicks * TickStep

\* The numbers of bytes a read may put into a buffer.
Sizes == {1}

NoTimer == 0 - 1
NoSlot == 0 - 1
NotIdle == 0 - 1

Slots == 0 .. (MAX_CONNECTIONS - 1)

VARIABLES
  conn_data,   \* the slot table: conn_data[i] = [connection, last_recv_time, bytes, buffers]
  app,         \* app_data_t: listener, first_idle_time, try_accept_time, wake_conn_time, connects, disconnects
  exit_code,   \* the process exit status
  pc,          \* "running" while run() loops, "done" once handle() returned false
  now,         \* the proactor's clock, pn_proactor_now_64()
  timer,       \* deadline of the proactor's single timeout, or NoTimer
  lst,         \* the listener in the proactor: "open", "closing" or "closed"
  conns,       \* the live raw connections: handle -> [context, st, rd, wr, rq, wq, woken]
  nconn,       \* raw connections created so far (the next handle is nconn + 1)
  heap,        \* malloc'ed blocks not yet freed: pairs <<connection, block>>
  faults,      \* errors committed so far: "double_free", "null_context", "listener_reclosed"
  nfail,       \* failed malloc calls so far
  ndata,       \* data-arrival events so far
  idle_since,  \* time since which no slot is bound, NotIdle while one is
  workload,    \* the kind of run: see the bounds
  reported     \* the events whose condition check_condition printed to stderr

vars == <<conn_data, app, exit_code, pc, now, timer, lst, conns, nconn, heap,
          faults, nfail, ndata, idle_since, workload, reported>>

\* ------------------------------------------------------------------ helpers
Min(a, b) == IF a <= b THEN a ELSE b

Range(s) == {s[i] : i \in 1 .. Len(s)}

RECURSIVE SumSizes(_)
SumSizes(s) == IF s = <<>> THEN 0 ELSE Head(s).size + SumSizes(Tail(s))

\* Length of the longest prefix of buffs whose buffers have memory: the number
\* of iterations of `for (i=0; i<n && buffs[i].bytes; ++i)`.
RECURSIVE LoopCount(_)
LoopCount(buffs) ==
  IF buffs = <<>> \/ Head(buffs).bytes = NULL THEN 0
  ELSE 1 + LoopCount(Tail(buffs))

\* The blocks of the buffers of a sequence that have memory.
Blocks(c, buffs) == {<<c, b.bytes>> : b \in {x \in Range(buffs) : x.bytes # NULL}}

\* The slots bound to a connection.
Bound(cd) == {i \in Slots : cd[i].connection # NULL}

Live == DOMAIN conns

\* The limits of the run's workload.
ConnLimit ==
  CASE workload = "timing" -> TimingConns
    [] workload = "traffic" -> TrafficConns
    [] OTHER -> FullConns
TimeLimit == IF workload = "timing" THEN MaxTime ELSE StartTime
DataLimit == IF workload = "traffic" THEN MaxData ELSE 0
FailLimit == IF workload = "traffic" THEN MaxAllocFail ELSE 0
\* Whether the proactor may set an event's condition (a transport or listener
\* failure) in this run.
MayFail == workload # "full"


\* ------------------------------------------------- the proactor's primitives
\* A raw buffer as the application fills it in at connection time.
RawBuffer(block) == [bytes |-> block, capacity |-> BUF_CAPACITY, size |-> 0, offset |-> 0]

\* pn_raw_connection_is_read_closed / pn_raw_connection_is_write_closed
is_read_closed(k) == k.rd # "open"
is_write_closed(k) == k.wr # "open"

\* pn_raw_connection_close: both directions are closed; a direction that was
\* open gets its closed event later.
raw_connection_close(k) ==
  [k EXCEPT !.rd = IF @ = "open" THEN "shut" ELSE @,
            !.wr = IF @ = "open" THEN "shut" ELSE @]

\* pn_raw_connection_give_read_buffers: the buffers join the read queue, empty.
give_read_buffers(k, buffs) ==
  [k EXCEPT !.rq = @ \o [i \in 1 .. Len(buffs) |-> [buffs[i] EXCEPT !.size = 0]]]

\* pn_raw_connection_write_buffers: the buffers join the write queue as they are.
write_buffers(k, buffs) == [k EXCEPT !.wq = @ \o buffs]

\* The connections that hold a slot, and those refused one.
Admitted == {c \in Live : conns[c].context # NoSlot}
Rejected == {c \in Live : conns[c].context = NoSlot}

\* A connection that carries traffic or is being torn down.
Busy(c) ==
  /\ conns[c].context # NoSlot
  /\ conns[c].st = "connected"
  /\ (conns[c].rd # "open" \/ conns[c].wr # "open" \/ conns[c].wq # <<>>)

MayGetBusy(c) == Busy(c) \/ Cardinality({d \in Live : Busy(d)}) < MaxBusy

Drop(c) == [d \in Live \ {c} |-> conns[d]]

\* ------------------------------------------------------- application helpers
\* make_conn_data with `i <= MAX_CONNECTIONS` as the loop's bound.
make_conn_data_off_by_one(cd) ==
  IF \E i \in Slots : cd[i].connection = NULL
  THEN CHOOSE i \in Slots :
         /\ cd[i].connection = NULL
         /\ \A j \in Slots : j < i => cd[j].connection # NULL
  ELSE MAX_CONNECTIONS

\* make_conn_data: the first slot with no connection, or NoSlot (NULL).
make_conn_data(cd) ==
  IF \E i \in Slots : cd[i].connection = NULL
  THEN CHOOSE i \in Slots :
         /\ cd[i].connection = NULL
         /\ \A j \in Slots : j < i => cd[j].connection # NULL
  ELSE NoSlot

\* free_conn_data without `c->connection = NULL`.
free_conn_data_keep(cd, i) == cd

\* free_conn_data: only the connection pointer is cleared.
free_conn_data(cd, i) ==
  IF i = NoSlot THEN cd ELSE [cd EXCEPT ![i].connection = NULL]

\* The buffers the connected handler builds: buffers[i].bytes = malloc(1024),
\* which is NULL for the calls in failed.
AllocBuffers(failed) ==
  [i \in 1 .. READ_BUFFERS |-> RawBuffer(IF i \in failed THEN NULL ELSE i)]

\* What the read handler does with the buffers it took.
ReadDisposition(k) ==
  IF ~is_write_closed(k) THEN "write"
  ELSE IF ~is_read_closed(k) THEN "give"
  ELSE "free"

\* What the written handler does with the buffers it took.
WrittenDisposition(k) ==
  IF ~is_read_closed(k) THEN "give" ELSE "free"

\* The blocks `for (i=0; i<n && buffs[i].bytes; ++i) free(buffs[i].bytes)` frees.
FreedBy(c, buffs) == Blocks(c, SubSeq(buffs, 1, LoopCount(buffs)))

\* The bytes the read handler adds to cd->bytes for one batch.
CountedBytes(buffs) == SumSizes(SubSeq(buffs, 1, LoopCount(buffs)))

\* The timeout handler without `timeout = 20000` in its idle branch.
TimeoutDelayDefault(a) == WAKE_INTERVAL

\* The delay the timeout handler re-arms the timer with.
TimeoutDelay(a) ==
  IF a.connects - a.disconnects = 0 THEN IDLE_TIMEOUT ELSE WAKE_INTERVAL

\* The branch the timeout handler takes.
TimeoutBranch(a, t) ==
  IF a.connects - a.disconnects = 0
  THEN IF a.first_idle_time = 0 THEN "idle_start"
       ELSE IF a.first_idle_time + IDLE_TIMEOUT <= t THEN "shutdown"
       ELSE "idle_wait"
  ELSE IF t >= a.wake_conn_time THEN "sweep"
  ELSE "rearm"

\* The raw connection the accept handler hands to pn_listener_raw_accept: with
\* its slot as context, or with no context and closed at once.
NewConn(cd, t) ==
  [context |-> cd, st |-> "accepted", rd |-> "open", wr |-> "open",
   rq |-> <<>>, wq |-> <<>>, woken |-> t]

\* The accept handler without the pn_raw_connection_close of its else branch.
AcceptedConnNoClose(cd, t) == NewConn(cd, t)

AcceptedConn(cd, t) ==
  IF cd # NoSlot THEN NewConn(cd, t) ELSE raw_connection_close(NewConn(NoSlot, t))

\* The read handler with `if` for `else if`: buffers it has written are also
\* given back for reading.
ReadHandOffBoth(k, buffs) ==
  IF ReadDisposition(k) = "write"
  THEN (IF ~is_read_closed(k) THEN give_read_buffers(write_buffers(k, buffs), buffs)
        ELSE write_buffers(k, buffs))
  ELSE IF ReadDisposition(k) = "give" THEN give_read_buffers(k, buffs)
  ELSE k

\* What the read handler hands back to the proactor, and what it frees.
ReadHandOff(k, buffs) ==
  IF ReadDisposition(k) = "write" THEN write_buffers(k, buffs)
  ELSE IF ReadDisposition(k) = "give" THEN give_read_buffers(k, buffs)
  ELSE k

ReadFrees(k, c, buffs) ==
  IF ReadDisposition(k) = "free" THEN FreedBy(c, buffs) ELSE {}

\* What the written handler hands back to the proactor, and what it frees.
WrittenHandOff(k, buffs) ==
  IF WrittenDisposition(k) = "give" THEN give_read_buffers(k, buffs) ELSE k

WrittenFrees(k, c, buffs) ==
  IF WrittenDisposition(k) = "free" THEN FreedBy(c, buffs) ELSE {}

\* check_condition: whether the event's condition is set (it is then printed).
check_condition(err) == err

\* check_condition_fatal: a condition that is set makes the exit status 1.
check_condition_fatal(err, code) == IF check_condition(err) THEN 1 ELSE code

\* The disconnected handler with check_condition_fatal for check_condition.
DisconnectedExitFatal(err, code) == check_condition_fatal(err, code)

\* The exit status after the disconnected handler: it calls check_condition
\* and ignores the result.
DisconnectedExit(err, code) == code

\* handle returning false whatever the exit status.
LoopAfterReturnsFalse(code) == "done"

\* handle's return value, `exit_code == 0`, as the position of run's loop.
LoopAfter(code) == IF code = 0 THEN "running" ELSE "done"

\* The buffers the connected handler gives for reading: READ_BUFFERS of them
\* under `if (cd)`, none for a connection without a slot.
ConnectedBuffersAlways(cd, failed) == AllocBuffers(failed)

ConnectedBuffers(cd, failed) == IF cd # NoSlot THEN AllocBuffers(failed) ELSE <<>>

\* Whether the accept handler arms the timer for a new connection.
AcceptArms(a, t) == a.wake_conn_time < t

\* free() of a set of blocks.
FreeHeap(blocks) ==
  /\ heap' = heap \ blocks
  /\ faults' = IF blocks \subseteq heap THEN faults ELSE faults \cup {"double_free"}

IdleAfter(cd) ==
  IF Bound(cd) # {} THEN NotIdle
  ELSE IF idle_since = NotIdle THEN now ELSE idle_since

\* -------------------------------------------------------------------- Init
Init ==
  /\ conn_data = [i \in Slots |-> [connection |-> NULL, last_recv_time |-> 0,
                                   bytes |-> 0, buffers |-> 0]]
  /\ app = [listener |-> "listener", first_idle_time |-> 0, try_accept_time |-> 0,
            wake_conn_time |-> 0, connects |-> 0, disconnects |-> 0]
  /\ exit_code = 0
  /\ pc = "running"
  /\ now = StartTime
  /\ timer = NoTimer
  /\ lst = "open"
  /\ conns = << >>
  /\ nconn = 0
  /\ heap = {}
  /\ faults = {}
  /\ nfail = 0
  /\ ndata = 0
  /\ idle_since = StartTime
  /\ workload \in Workloads
  /\ reported = {}

\* ----------------------------------------------------------------- actions
\* PN_LISTENER_ACCEPT
ListenerAccept ==
  /\ pc = "running" /\ lst = "open" /\ nconn < ConnLimit
  /\ LET c == nconn + 1
         cd == make_conn_data(conn_data)
     IN /\ nconn' = c
        /\ IF cd # NoSlot
           THEN /\ conn_data' = [conn_data EXCEPT ![cd].connection = c]
                /\ app' = [app EXCEPT !.first_idle_time = 0,
                                      !.try_accept_time = 0,
                                      !.wake_conn_time =
                                         IF AcceptArms(app, now) THEN now + WAKE_INTERVAL ELSE @]
                /\ timer' = IF AcceptArms(app, now) THEN now + WAKE_INTERVAL ELSE timer
           ELSE UNCHANGED <<conn_data, app, timer>>
        /\ conns' = conns @@ (c :> AcceptedConn(cd, now))
        /\ idle_since' = IdleAfter(conn_data')
  /\ UNCHANGED <<exit_code, pc, now, lst, heap, faults, nfail, ndata, workload, reported>>

\* PN_RAW_CONNECTION_CONNECTED
RawConnected(c, failed) ==
  /\ pc = "running" /\ c \in Live /\ conns[c].st = "accepted"
  /\ IF conns[c].context # NoSlot
     THEN /\ nfail + Cardinality(failed) <= FailLimit
          /\ app' = [app EXCEPT !.connects = @ + 1]
          /\ nfail' = nfail + Cardinality(failed)
     ELSE /\ failed = {}
          /\ UNCHANGED <<app, nfail>>
  /\ LET buffers == ConnectedBuffers(conns[c].context, failed)
     IN /\ heap' = heap \cup Blocks(c, buffers)
        /\ conns' = [conns EXCEPT ![c] =
                       give_read_buffers([@ EXCEPT !.st = "connected"], buffers)]
  /\ UNCHANGED <<conn_data, exit_code, pc, now, timer, lst, nconn, faults, ndata, idle_since, workload, reported>>

\* PN_RAW_CONNECTION_DISCONNECTED: with err, the connection's condition is set.
RawDisconnected(c, err) ==
  /\ pc = "running" /\ c \in Live /\ conns[c].st = "connected"
  /\ conns[c].rd = "done" /\ conns[c].wr = "done"
  /\ conns[c].rq = <<>> /\ conns[c].wq = <<>>
  /\ err => MayFail
  /\ app' = [app EXCEPT !.disconnects = @ + 1]
  /\ reported' = IF check_condition(err) THEN reported \cup {"disconnected"} ELSE reported
  /\ exit_code' = DisconnectedExit(err, exit_code)
  /\ conn_data' = free_conn_data(conn_data, conns[c].context)
  /\ conns' = Drop(c)
  /\ pc' = LoopAfter(exit_code')
  /\ idle_since' = IdleAfter(conn_data')
  /\ UNCHANGED <<now, timer, lst, nconn, heap, faults, nfail, ndata, workload>>


\* PN_RAW_CONNECTION_READ: the proactor returns the first n buffers of the read
\* queue, each holding size bytes (data from the peer while the read side is
\* open; the unused buffers, empty, once it is closed).
RawRead(c, n, size) ==
  /\ pc = "running" /\ c \in Live /\ conns[c].st = "connected"
  /\ n \in 1 .. Len(conns[c].rq)
  /\ IF is_read_closed(conns[c])
     THEN n = Len(conns[c].rq) /\ size = 0 /\ ndata' = ndata
     ELSE /\ size \in Sizes /\ ndata < DataLimit /\ MayGetBusy(c)
          /\ \A i \in 1 .. n : conns[c].rq[i].bytes # NULL
          /\ ndata' = ndata + 1
  /\ LET k == conns[c]
         cd == k.context
         buffs == [i \in 1 .. n |-> [k.rq[i] EXCEPT !.size = size]]
         taken == [k EXCEPT !.rq = SubSeq(@, n + 1, Len(@))]
     IN IF cd = NoSlot
        THEN \* cd->last_recv_time through a NULL context
             /\ faults' = faults \cup {"null_context"}
             /\ pc' = "done"
             /\ UNCHANGED <<conn_data, conns, heap>>
        ELSE /\ conn_data' = [conn_data EXCEPT ![cd].last_recv_time = now,
                                               ![cd].bytes = @ + CountedBytes(buffs),
                                               ![cd].buffers = @ + n]
             /\ pc' = pc
             /\ conns' = [conns EXCEPT ![c] = ReadHandOff(taken, buffs)]
             /\ FreeHeap(ReadFrees(k, c, buffs))
  /\ UNCHANGED <<app, exit_code, now, timer, lst, nconn, nfail, idle_since, workload, reported>>

\* PN_RAW_CONNECTION_WRITTEN: the proactor returns the first n buffers of the
\* write queue (written while the write side is open; all of them, unwritten,
\* once it is closed).
RawWritten(c, n) ==
  /\ pc = "running" /\ c \in Live /\ conns[c].st = "connected"
  /\ n \in 1 .. Len(conns[c].wq)
  /\ is_write_closed(conns[c]) => n = Len(conns[c].wq)
  /\ LET k == conns[c]
         buffs == SubSeq(k.wq, 1, n)
         taken == [k EXCEPT !.wq = SubSeq(@, n + 1, Len(@))]
     IN /\ conns' = [conns EXCEPT ![c] = WrittenHandOff(taken, buffs)]
        /\ FreeHeap(WrittenFrees(k, c, buffs))
  /\ UNCHANGED <<conn_data, app, exit_code, pc, now, timer, lst, nconn, nfail, ndata,
                 idle_since, workload, reported>>

\* PN_RAW_CONNECTION_CLOSED_READ (dir = "rd") and PN_RAW_CONNECTION_CLOSED_WRITE
\* (dir = "wr"): the handler closes the connection.
RawClosed(c, dir) ==
  /\ pc = "running" /\ c \in Live /\ conns[c].st = "connected"
  /\ conns[c][dir] = "shut"
  /\ conns' = [conns EXCEPT ![c] = raw_connection_close([@ EXCEPT ![dir] = "done"])]
  /\ UNCHANGED <<conn_data, app, exit_code, pc, now, timer, lst, nconn, heap, faults,
                 nfail, ndata, idle_since, workload, reported>>

\* The proactor closes one direction of a connection (the peer's end of
\* stream, or a transport failure).
PeerShut(c, dir) ==
  /\ pc = "running" /\ c \in Live /\ conns[c].st = "connected"
  /\ conns[c][dir] = "open"
  /\ MayGetBusy(c)
  /\ conns' = [conns EXCEPT ![c][dir] = "shut"]
  /\ UNCHANGED <<conn_data, app, exit_code, pc, now, timer, lst, nconn, heap, faults,
                 nfail, ndata, idle_since, workload, reported>>

\* PN_LISTENER_CLOSE: with err, the listener's condition is set.
ListenerClose(err) ==
  /\ pc = "running"
  /\ \/ lst = "closing" /\ ~err
     \/ lst = "open" /\ err /\ MayFail
  /\ lst' = "closed"
  /\ app' = [app EXCEPT !.listener = "null"]
  /\ reported' = IF check_condition(err) THEN reported \cup {"listener_close"} ELSE reported
  /\ exit_code' = check_condition_fatal(err, exit_code)
  /\ pc' = LoopAfter(exit_code')
  /\ UNCHANGED <<conn_data, now, timer, conns, nconn, heap, faults, nfail, ndata,
                 idle_since, workload>>

\* The connections the keepalive sweep wakes: those the bound slots point to.
Swept(cd) == {cd[i].connection : i \in Bound(cd)}

\* PN_PROACTOR_TIMEOUT
ProactorTimeout ==
  /\ pc = "running" /\ timer # NoTimer /\ now >= timer
  /\ LET branch == TimeoutBranch(app, now)
         timeout == TimeoutDelay(app)
     IN /\ app' = [app EXCEPT
                     !.first_idle_time = IF branch = "idle_start" THEN now ELSE @,
                     !.wake_conn_time = IF branch = "sweep" THEN now + WAKE_INTERVAL ELSE @]
        /\ conns' = IF branch = "sweep"
                    THEN [c \in Live |-> IF c \in Swept(conn_data)
                                         THEN [conns[c] EXCEPT !.woken = now]
                                         ELSE conns[c]]
                    ELSE conns
        /\ lst' = IF branch = "shutdown" /\ lst = "open" THEN "closing" ELSE lst
        /\ faults' = IF branch = "shutdown" /\ lst # "open"
                      THEN faults \cup {"listener_reclosed"} ELSE faults
        /\ timer' = IF branch = "shutdown" THEN NoTimer ELSE now + timeout
  /\ pc' = LoopAfter(exit_code)
  /\ UNCHANGED <<conn_data, exit_code, now, nconn, heap, nfail, ndata,
                 idle_since, workload, reported>>

\* PN_PROACTOR_INACTIVE: no listener, no connection and no timeout are left.
ProactorInactive ==
  /\ pc = "running"
  /\ lst = "closed" /\ Live = {} /\ timer = NoTimer
  /\ pc' = "done"
  /\ UNCHANGED <<conn_data, app, exit_code, now, timer, lst, conns, nconn, heap, faults,
                 nfail, ndata, idle_since, workload, reported>>

\* Time passes, up to the pending timeout's deadline: the timeout event is
\* delivered when it is due.  The events that set a connection up or tear it
\* down take no time on this clock: it moves only while every connection is
\* connected and open, or refused.
Tick ==
  /\ pc = "running" /\ now < TimeLimit
  /\ timer # NoTimer => now < timer
  /\ \A c \in Admitted : conns[c].st = "connected" /\ ~Busy(c)
  /\ now' = Min(Min(now + TickStep, TimeLimit),
                IF timer # NoTimer THEN timer ELSE TimeLimit)
  /\ UNCHANGED <<conn_data, app, exit_code, pc, timer, lst, conns, nconn, heap, faults,
                 nfail, ndata, idle_since, workload, reported>>

Next ==
  \/ ListenerAccept
  \/ \E c \in Live : \E failed \in SUBSET (1 .. READ_BUFFERS) : RawConnected(c, failed)
  \/ \E c \in Live : \E err \in BOOLEAN : RawDisconnected(c, err)
  \/ \E c \in Live : \E n \in 1 .. READ_BUFFERS : \E size \in Sizes \cup {0} : RawRead(c, n, size)
  \/ \E c \in Live : \E n \in 1 .. READ_BUFFERS : RawWritten(c, n)
  \/ \E c \in Live : \E dir \in {"rd", "wr"} : RawClosed(c, dir)
  \/ \E c \in Live : \E dir \in {"rd", "wr"} : PeerShut(c, dir)
  \/ \E err \in BOOLEAN : ListenerClose(err)
  \/ ProactorTimeout
  \/ ProactorInactive
  \/ Tick

Spec == Init /\ [][Next]_vars

TypeOK ==
  /\ pc \in {"running", "done"}
  /\ exit_code \in {0, 1}
  /\ faults \subseteq {"double_free", "null_context", "listener_reclosed"}
  /\ reported \subseteq {"disconnected", "listener_close"}


\* ------------------------------------------------------------------ claims
\* C1: at every point in time disconnects <= connects, also after the events
\* of a connection that was refused because the slot table was full.
C1_DisconnectsLeConnects == app.disconnects <= app.connects

\* C2: when no connection has been active for 20000 ms the timeout controller
\* closes the listener, once: a listener cannot stay open through an idle
\* window longer than the 20000 ms plus the 5000 ms the controller takes to
\* notice the window, and the listener is never closed a second time.
C2_IdleClosesListener ==
  /\ (lst = "open" /\ idle_since # NotIdle)
        => now - idle_since <= IDLE_TIMEOUT + WAKE_INTERVAL
  /\ "listener_reclosed" \notin faults

\* C3: the timeout controller has closed the listener only with no slot bound
\* and after at least 20000 ms without any bound slot.
C3_ClosesOnlyWhenIdle ==
  lst = "closing" =>
    /\ Bound(conn_data) = {}
    /\ idle_since # NotIdle
    /\ now - idle_since >= IDLE_TIMEOUT

\* C4: every slot bound to a live connection is woken at least once in every
\* 5000 ms of its active lifetime: no bound connection has gone longer than
\* that since its admission or its last wake.
C4_WokenEveryInterval ==
  \A c \in Admitted : now - conns[c].woken <= WAKE_INTERVAL

\* C5: a newly reserved slot (its connection has had no event yet) starts
\* with last_recv_time = 0, bytes = 0 and buffers = 0.
C5_ReservedSlotIsZeroed ==
  \A c \in Admitted :
    conns[c].st = "accepted" =>
      /\ conn_data[conns[c].context].last_recv_time = 0
      /\ conn_data[conns[c].context].bytes = 0
      /\ conn_data[conns[c].context].buffers = 0


\* C6: no double ownership: a block of memory is never outstanding at the
\* proactor twice (in the read queue, in the write queue, or in both), a block
\* that is outstanding has not been freed, and no block is freed twice.
C6_NoDoubleOwnership ==
  /\ "double_free" \notin faults
  /\ \A c \in Live :
       LET q == conns[c].rq \o conns[c].wq
       IN /\ \A i, j \in 1 .. Len(q) :
               (i # j /\ q[i].bytes # NULL) => q[i].bytes # q[j].bytes
          /\ \A i \in 1 .. Len(q) : q[i].bytes # NULL => <<c, q[i].bytes>> \in heap

\* A connection with buffers outstanding for write, after others of its
\* buffers were taken back and freed.
C6_Witness ==
  \E c \in Live :
    /\ nfail = 0 /\ conns[c].st = "connected"
    /\ conns[c].wq # <<>>
    /\ \E b \in 1 .. READ_BUFFERS : <<c, b>> \notin heap

\* C7: once a connection is disconnected, every buffer allocated for it has
\* been disposed: no block of a connection that is gone is still allocated.
C7_NoLeakAfterDisconnect == \A blk \in heap : blk[1] \in Live

\* C8: the number of simultaneously bound slots, and of live connections
\* that hold a slot, never exceeds MAX_CONNECTIONS.
C8_BoundSlotsAtMostN ==
  /\ Cardinality(Bound(conn_data)) <= MAX_CONNECTIONS
  /\ Cardinality(Admitted) <= MAX_CONNECTIONS

\* All slots are bound and a further connection has arrived.
C8_Witness ==
  /\ Cardinality(Bound(conn_data)) = MAX_CONNECTIONS
  /\ Rejected # {}

\* The step is the accept of a connection that finds every slot bound.
AcceptWhenFull == nconn' = nconn + 1 /\ Bound(conn_data) = Slots

\* The step is an event of connection c.
EventOf(c) == c \notin DOMAIN conns' \/ conns'[c] # conns[c]

\* Nothing of the application or of the other connections changes.
OthersUntouched(c) ==
  /\ conn_data' = conn_data
  /\ heap' = heap
  /\ exit_code' = exit_code /\ pc' = pc /\ lst' = lst
  /\ \A d \in Live \ {c} : d \in DOMAIN conns' /\ conns'[d] = conns[d]

\* C9: a connection that arrives while all slots are bound is accepted with no
\* context and closed at once; it never has a buffer; its accept and its later
\* events leave the slots, the buffers, the other connections and the service
\* as they were.
C9_RejectionWhenFull ==
  [][/\ AcceptWhenFull =>
          /\ conns'[nconn'].context = NoSlot
          /\ OthersUntouched(nconn')
     /\ \A c \in DOMAIN conns' :
          conns'[c].context = NoSlot =>
            /\ is_read_closed(conns'[c]) /\ is_write_closed(conns'[c])
            /\ conns'[c].rq = <<>> /\ conns'[c].wq = <<>>
     /\ \A c \in Rejected : EventOf(c) => OthersUntouched(c)]_vars

\* All slots are still bound after the refused connection has disconnected.
C9_Witness ==
  /\ Bound(conn_data) = Slots
  /\ nconn = MAX_CONNECTIONS + 1
  /\ Rejected = {}
  /\ app.disconnects = 1

\* The step is a read event of c that took n buffers.
ReadEvent(c, n) ==
  /\ conns[c].context # NoSlot
  /\ conn_data'[conns[c].context].buffers = conn_data[conns[c].context].buffers + n

\* C10: the buffers a read event takes are, in order and unchanged, written
\* back if the write side is open, else given back for reading if the read
\* side is open, else all freed.
C10_EchoDisposition ==
  [][\A c \in Live : \A n \in 1 .. READ_BUFFERS :
       ReadEvent(c, n) =>
         \E size \in Sizes \cup {0} :
           LET k == conns[c]
               buffs == [i \in 1 .. n |-> [k.rq[i] EXCEPT !.size = size]]
               rest == SubSeq(k.rq, n + 1, Len(k.rq))
           IN IF ~is_write_closed(k)
              THEN /\ conns'[c].wq = k.wq \o buffs
                   /\ conns'[c].rq = rest
                   /\ heap' = heap
              ELSE IF ~is_read_closed(k)
              THEN /\ conns'[c].rq = rest \o [i \in 1 .. n |-> [buffs[i] EXCEPT !.size = 0]]
                   /\ conns'[c].wq = k.wq
                   /\ heap' = heap
              ELSE /\ conns'[c].rq = rest
                   /\ conns'[c].wq = k.wq
                   /\ heap' = heap \ Blocks(c, buffs)]_vars

\* C11: the disconnected event of a connection, whether or not its condition
\* is set, leaves the exit status, the dispatch loop, the listener and the
\* other connections as they were; the exit status changes only to 1 and only
\* at a listener-closed event whose condition is set.
C11_ErrorPropagation ==
  [][/\ \A c \in Live :
          c \notin DOMAIN conns' =>
            /\ exit_code' = exit_code /\ pc' = pc
            /\ lst' = lst /\ app'.listener = app.listener
            /\ \A d \in Live \ {c} : d \in DOMAIN conns' /\ conns'[d] = conns[d]
     /\ exit_code' # exit_code =>
          /\ exit_code' = 1
          /\ lst # "closed" /\ lst' = "closed"
          /\ "listener_close" \in reported']_vars

\* A connection has disconnected with its condition set while others live on
\* and the service runs.
C11_Witness ==
  /\ "disconnected" \in reported
  /\ exit_code = 0 /\ pc = "running" /\ lst = "open"
  /\ Live # {}

\* C12: first_idle_time is non-zero only while the service is idle: whenever
\* it is non-zero, connects = disconnects and no admitted connection is active
\* (no slot is bound).
C12_FirstIdleOnlyWhileIdle ==
  app.first_idle_time # 0 =>
    /\ app.connects = app.disconnects
    /\ Bound(conn_data) = {}

\* The dispatch loop under the proactor's scheduling: an event that is ready
\* (the listener's closed event, the inactive event) is delivered.
FairSpec ==
  Spec /\ WF_vars(ListenerClose(FALSE)) /\ WF_vars(ProactorInactive)

\* The step is the handling of a timeout event: the timer that was due is
\* re-armed or consumed, and no connection was accepted.
TimeoutStep == timer # NoTimer /\ now >= timer /\ timer' # timer /\ nconn' = nconn

\* C13: a timeout event never makes run's loop return; the loop returns only
\* at the inactive event (no listener, connection or timer left), then with
\* exit code 0, or at a listener-closed event whose condition set exit code
\* 1; and once the timeout controller has closed the listener with every
\* connection gone, the run ends with exit code 0.
C13_LoopReturn ==
  /\ [][/\ TimeoutStep => pc' = pc
        /\ (pc = "running" /\ pc' = "done") =>
             \/ /\ lst = "closed" /\ Live = {} /\ timer = NoTimer
                /\ exit_code = 0 /\ exit_code' = 0
             \/ /\ exit_code' = 1
                /\ "listener_close" \in reported']_vars
  /\ (lst = "closing" /\ Live = {}) ~> (pc = "done" /\ exit_code = 0)

\* The run has ended with exit code 0 after the timeout controller closed the
\* listener.
C13_Witness ==
  /\ pc = "done" /\ exit_code = 0
  /\ lst = "closed" /\ app.first_idle_time # 0

\* C14: every timeout event re-arms the timer once, for now + 20000 if
\* connects = disconnects and for now + 5000 otherwise, except the firing that
\* starts the shutdown (idle, first_idle_time set, now - first_idle_time >=
\* 20000), which closes the listener and leaves no timer; the connections of
\* the bound slots are woken, and wake_conn_time becomes now + 5000, exactly
\* when connects # disconnects and now >= wake_conn_time.
C14_TimerRearmRule ==
  [][TimeoutStep =>
       LET idle == app.connects = app.disconnects
           shutdown == /\ idle
                       /\ app.first_idle_time # 0
                       /\ now - app.first_idle_time >= IDLE_TIMEOUT
           sweep == ~idle /\ now >= app.wake_conn_time
       IN /\ IF shutdown
             THEN timer' = NoTimer /\ lst' = "closing"
             ELSE /\ timer' = now + (IF idle THEN IDLE_TIMEOUT ELSE WAKE_INTERVAL)
                  /\ lst' = lst
          /\ IF sweep
             THEN /\ app'.wake_conn_time = now + WAKE_INTERVAL
                  /\ \A i \in Bound(conn_data) :
                       conns'[conn_data[i].connection].woken = now
             ELSE /\ app'.wake_conn_time = app.wake_conn_time
                  /\ conns' = conns]_vars

\* The timer was re-armed for the idle interval after a keepalive sweep, and
\* then fired again and closed the listener.
C14_Witness ==
  /\ lst = "closing" /\ timer = NoTimer
  /\ app.wake_conn_time > StartTime + WAKE_INTERVAL
  /\ app.first_idle_time + IDLE_TIMEOUT <= now

\* The step is the accept of a connection that gets a slot.
AdmitStep == nconn' = nconn + 1 /\ conns'[nconn'].context # NoSlot

\* C15: after every accept that reserves a slot, first_idle_time is 0 and a
\* timer is pending that fires no later than 5000 ms after the admission.
C15_AdmissionSchedulesSweep ==
  [][AdmitStep =>
       /\ app'.first_idle_time = 0
       /\ timer' # NoTimer
       /\ timer' <= now + WAKE_INTERVAL]_vars

\* The lowest slot with no connection.
LowestFree(cd) ==
  CHOOSE i \in Slots \ Bound(cd) : \A j \in Slots \ Bound(cd) : i <= j

\* C16: a slot's connection is non-empty iff the slot is the context of a live
\* connection that was admitted and has not had its disconnected event, and
\* then it is that connection; no two bound slots hold the same connection;
\* an accept binds the lowest free slot, and a slot that is bound is bound to
\* another connection only after a step in which it was free.
C16_SlotLifecycle ==
  /\ [](/\ \A i \in Bound(conn_data) :
             /\ conn_data[i].connection \in Admitted
             /\ conns[conn_data[i].connection].context = i
        /\ \A c \in Admitted : conn_data[conns[c].context].connection = c
        /\ \A i, j \in Bound(conn_data) :
             conn_data[i].connection = conn_data[j].connection => i = j)
  /\ [][/\ AdmitStep =>
             /\ conns'[nconn'].context = LowestFree(conn_data)
             /\ conn_data'[LowestFree(conn_data)].connection = nconn'
        /\ \A i \in Slots :
             conn_data'[i].connection # conn_data[i].connection =>
               \/ conn_data[i].connection = NULL
               \/ /\ conn_data'[i].connection = NULL
                  /\ conn_data[i].connection \notin DOMAIN conns']_vars

\* A slot is bound again after its first connection disconnected, while a
\* higher slot stayed bound.
C16_Witness ==
  /\ conn_data[0].connection > 1
  /\ conn_data[1].connection # NULL
  /\ conn_data[0].connection > conn_data[1].connection

\* C17: at every written event the buffers taken back from the write queue
\* are, in order, given back for reading if the read side is open, else all
\* of them freed; none stays with the application and none is written again.
C17_WriteCompletion ==
  [][\A c \in Live :
       (c \in DOMAIN conns' /\ Len(conns'[c].wq) < Len(conns[c].wq)) =>
         LET k == conns[c]
             n == Len(k.wq) - Len(conns'[c].wq)
             buffs == SubSeq(k.wq, 1, n)
         IN /\ conns'[c].wq = SubSeq(k.wq, n + 1, Len(k.wq))
            /\ IF ~is_read_closed(k)
               THEN /\ conns'[c].rq = k.rq \o [i \in 1 .. n |-> [buffs[i] EXCEPT !.size = 0]]
                    /\ heap' = heap
               ELSE /\ conns'[c].rq = k.rq
                    /\ heap' = heap \ Blocks(c, buffs)]_vars

\* C18: a failed allocation of the initial read buffers is local to the
\* connection: no partial batch reaches the proactor, that is, no buffer
\* without memory is outstanding for read or for write on any connection.
C18_AllocFailureIsLocal ==
  \A c \in Admitted :
    \A i \in 1 .. Len(conns[c].rq \o conns[c].wq) :
      (conns[c].rq \o conns[c].wq)[i].bytes # NULL

\* The buffers of connection c that were disposed: those of its READ_BUFFERS
\* buffers whose memory is not allocated.
Disposed(c) == READ_BUFFERS - Cardinality({blk \in heap : blk[1] = c})

\* The buffers of connection c, told apart by their memory, that are
\* outstanding at the proactor for read or for write.
Outstanding(c) == Cardinality(Blocks(c, conns[c].rq \o conns[c].wq))

\* C19: for every connection that had its connected event with a slot, the
\* buffers outstanding for read or write and those disposed add up to
\* READ_BUFFERS between events: the application holds none.
C19_BufferConservation ==
  \A c \in Admitted :
    conns[c].st = "connected" => Outstanding(c) + Disposed(c) = READ_BUFFERS

\* C20: the read handler, which dereferences the connection's context, never
\* runs for a connection without a slot: a connection refused because the
\* table was full never has a buffer at the proactor, so no read event
\* returns one, and no context that is NULL has been dereferenced.
C20_ContextPresentAtRead ==
  /\ "null_context" \notin faults
  /\ \A c \in Rejected : conns[c].rq = <<>> /\ conns[c].wq = <<>>

\* A refused connection has had its connected event and both its closed
\* events, and no read event.
C20_Witness ==
  \E c \in Rejected :
    /\ conns[c].st = "connected"
    /\ conns[c].rd = "done" /\ conns[c].wr = "done"
    /\ pc = "running"

====
